---------------------------- MODULE Spec2Model ----------------------------
(***************************************************************************)
(* Model of the interactive console of flf (class FluentFinderUI and the   *)
(* start-up code of the stand-alone console, src/unnamed/part_001 lines    *)
(* 517-904).                                                               *)
(*                                                                         *)
(* One keypress is one step: blessed delivers it to the screen-level key   *)
(* handlers (bindKeys) unless the text box has grabbed the keys, then to   *)
(* the listeners of the focused text box in registration order:            *)
(* handleQueryChange (registered by the constructor) and the text box's    *)
(* own listener (registered by readInput).  handleQueryChange is an async  *)
(* function: it runs synchronously up to `await this.core.search`, and its *)
(* continuation (updateList + render) is a separate step taken when the    *)
(* search resolves.  Any number of searches may be pending, and they       *)
(* resolve in any order.                                                   *)
(*                                                                         *)
(* The operations of the cores (src/src/dircore.ts, src/src/buffercore.ts, *)
(* src/src/buffer-loader.ts) and setupTTY are modelled as calls with their *)
(* arguments and the behaviour of the libraries drawn from small sets      *)
(* (specification SpecCore).                                               *)
(***************************************************************************)
EXTENDS Integers, Sequences, FiniteSets, TLC

\* ------------------------------------------------------------------ bounds
MaxRequests == 3      \* searches dispatched in one run
MaxQueryLen == 3      \* characters held by the text box

\* ------------------------------------------------------- program constants
K == 20               \* k: 20 in every search of the console
SnippetLength == 100  \* result.content.substring(0, 100)

\* --------------------------------------------------------------- the index
NoItem == [filePath |-> "", entity |-> "", content |-> "", language |-> "", row |-> 0]

\* The chunks the directory scan puts into the index.
Chunks ==
  << [filepath |-> "a.ts", entity |-> "alpha", content |-> "A", language |-> "ts", row |-> 0],
     [filepath |-> "b.ts", entity |-> "beta",  content |-> "B", language |-> "ts", row |-> 4],
     [filepath |-> "c.py", entity |-> "gamma", content |-> "C", language |-> "py", row |-> 9] >>

\* a content of n characters, as the sequence of its characters
Text(n) == [i \in 1..n |-> ToString(i % 10)]

\* chunks whose contents are given character by character: an empty one, and
\* ones just below, at and above the length at which snippets are cut
TextChunks ==
  << [filepath |-> "a.ts", entity |-> "alpha", content |-> Text(SnippetLength - 1),
      language |-> "ts", row |-> 0],
     [filepath |-> "b.ts", entity |-> "beta", content |-> Text(SnippetLength),
      language |-> "ts", row |-> 4],
     [filepath |-> "c.py", entity |-> "gamma", content |-> Text(SnippetLength + 1),
      language |-> "py", row |-> 9],
     [filepath |-> "d.py", entity |-> "delta", content |-> Text(0),
      language |-> "py", row |-> 2] >>

Editors == {"nvim", "vim", "emacs", "cmd"}

\* the editors the console is started with in this model
ConsoleEditors == {"nvim", "cmd"}

\* ---------------------------------------------------------------- helpers
Min(a, b) == IF a < b THEN a ELSE b

RECURSIVE TrimLeft(_)
TrimLeft(s) == IF s # <<>> /\ Head(s) = " " THEN TrimLeft(Tail(s)) ELSE s

RECURSIVE TrimRight(_)
TrimRight(s) ==
  IF s # <<>> /\ s[Len(s)] = " " THEN TrimRight(SubSeq(s, 1, Len(s) - 1)) ELSE s

\* String.prototype.trim on the text box value
Trim(s) == TrimRight(TrimLeft(s))

\* db.searchSimilar(queryText, k): the ranked matches of the vector index.
\* Every chunk is a match of every query; the order depends on the query
\* (here: on its length), and an index that holds nothing returns nothing.
Rotate(seq, n) ==
  [i \in 1..Len(seq) |-> seq[((i - 1 + n) % Len(seq)) + 1]]

searchSimilar(stored, queryText, k) ==
  IF stored = <<>> THEN <<>>
  ELSE SubSeq(Rotate(stored, Len(queryText) % Len(stored)), 1, Min(k, Len(stored)))

\* String.prototype.substring(start, end), 0 <= start <= end
substring(s, start, end) == SubSeq(s, start + 1, Min(end, Len(s)))

\* variant: the ellipsis is appended only to a content that was cut
contentSnippetIfLonger(content, isJsonOutput) ==
  IF isJsonOutput \/ Len(content) <= SnippetLength THEN content
  ELSE substring(content, 0, SnippetLength) \o <<".", ".", ".">>

\* isJsonOutput ? result.content : result.content.substring(0, 100) + "..."
contentSnippet(content, isJsonOutput) ==
  IF isJsonOutput THEN content
  ELSE substring(content, 0, SnippetLength) \o <<".", ".", ".">>

\* FlfDirCore.search: rank is the 1-based position in the backend's answer
FlfDirCore_search(stored, queryText, k, isJsonOutput) ==
  LET results == searchSimilar(stored, queryText, k) IN
  [i \in 1..Len(results) |->
     [rank |-> i,
      file |-> results[i].filepath,
      entity |-> results[i].entity,
      contentSnippet |-> contentSnippet(results[i].content, isJsonOutput),
      language |-> results[i].language,
      row |-> results[i].row]]

\* FlfBufferCore.search
FlfBufferCore_search(stored, queryText, k, isJsonOutput) ==
  LET results == searchSimilar(stored, queryText, k) IN
  [i \in 1..Len(results) |->
     [rank |-> i,
      file |-> results[i].filepath,
      entity |-> results[i].entity,
      contentSnippet |-> contentSnippet(results[i].content, isJsonOutput),
      language |-> results[i].language,
      row |-> results[i].row]]

\* the search of the console: core.search({queryText, isJsonOutput: true, k})
search(stored, queryText, k) == FlfDirCore_search(stored, queryText, k, TRUE)

\* variant: the comparison is reversed, (a, b) => b.rank - a.rank
RECURSIVE SortByRankDescending(_)
SortByRankDescending(res) ==
  IF res = <<>> THEN <<>>
  ELSE LET rest == SortByRankDescending(Tail(res))
           h == Head(res)
           before == SelectSeq(rest, LAMBDA r : r.rank > h.rank)
           after == SelectSeq(rest, LAMBDA r : r.rank <= h.rank)
       IN  before \o <<h>> \o after

\* res.sort((a, b) => a.rank - b.rank): insertion of each row by rank
RECURSIVE SortByRank(_)
SortByRank(res) ==
  IF res = <<>> THEN <<>>
  ELSE LET rest == SortByRank(Tail(res))
           h == Head(res)
           before == SelectSeq(rest, LAMBDA r : r.rank < h.rank)
           after == SelectSeq(rest, LAMBDA r : r.rank >= h.rank)
       IN  before \o <<h>> \o after

\* .map(r => ({filePath: r.file, entity, content: r.contentSnippet, ...}))
ToListItems(res) ==
  LET sorted == SortByRank(res) IN
  [i \in 1..Len(sorted) |->
     [filePath |-> sorted[i].file,
      entity |-> sorted[i].entity,
      content |-> sorted[i].contentSnippet,
      language |-> sorted[i].language,
      row |-> sorted[i].row]]

\* ------------------------------------------------------------------- keys
\* blessed key objects (interface AsciiKey / UnicodeKey).  ch is the
\* character blessed passes along with the key ("" when there is none).
Letters == {"f", "o"}

AsciiKey(name, ctrl, full, ch) ==
  [name |-> name, ctrl |-> ctrl, meta |-> FALSE, shift |-> FALSE, full |-> full, ch |-> ch]

\* a key blessed has no name for (digit, punctuation, non-ASCII character):
\* name is undefined and full is the character itself
UnicodeKey(ch) ==
  [name |-> "", ctrl |-> FALSE, meta |-> FALSE, shift |-> FALSE, full |-> ch, ch |-> ch]

\* an upper-case letter: name is the lower-case letter, shift is set
ShiftF == [AsciiKey("f", FALSE, "S-f", "F") EXCEPT !.shift = TRUE]

\* the keys that put a character into the text box
PrintableKeys ==
  {AsciiKey(c, FALSE, c, c) : c \in Letters}
    \cup {ShiftF, AsciiKey("space", FALSE, "space", " "), UnicodeKey("1")}

Keys ==
  PrintableKeys
    \cup {AsciiKey(n, FALSE, n, "") : n \in {"backspace", "enter", "up", "down", "escape"}}
    \cup {AsciiKey("c", TRUE, "C-c", "")}

\* key.name.length === 1
NameLength(name) == IF name \in Letters \cup {"c", "q"} THEN 1 ELSE 2

\* what a call of a library operation did: the calls it made in order
\* (trace), the lines it wrote on the console, the arguments of its
\* bulkInsertChunks calls (bulk), and how it ended: thrown is "" when it
\* returned value, otherwise the kind of the value thrown
Outcome(trace, console, bulk, thrown, value) ==
  [trace |-> trace, console |-> console, bulk |-> bulk, thrown |-> thrown, value |-> value]

NoResult == Outcome(<<>>, <<>>, <<>>, "", 0)

\* ------------------------------------------------------------------ state
VARIABLES
  value,          \* this.input.value, a sequence of characters
  reading,        \* the text box is reading input (screen.grabKeys)
  currentResult,  \* this.currentResult
  titles,         \* the items of this.list
  selected,       \* this.list.selected, 0-based
  preview,        \* what this.preview shows: [content, language]
  destroyed,      \* this.screen.destroyed
  isRaw,          \* ttyIn.isRaw
  ttyInOpen,      \* ttyIn has not been destroyed
  ttyOutOpen,     \* ttyOut has not been ended
  stdout,         \* the lines console.log has written
  effects,        \* the terminal and output operations performed, in order
  pending,        \* the searches awaiting their answer
  nextSeq,        \* dispatch number of the next search (numbers from 1)
  stored,         \* the chunks the index holds
  indexing,       \* "scanning", "inserting" or "done"
  alive,          \* FALSE once an unhandled rejection has ended the process
  editor,         \* this.options.editor
  shownSeq,       \* history: dispatch number of the search on display, 0 for none
  lastArrival,    \* history: the answer with the greatest dispatch number so far
  selection,      \* history: what enter captured
  cursorBefore,   \* history: the cursor just before the latest list replacement
  script,         \* test driver: the keys it has yet to send (<<>>: free input)
  call,           \* the library operation called last, with its arguments
  outcome         \* what that call did: its effects and how it ended

\* the state of the console
uiVars ==
  << value, reading, currentResult, titles, selected, preview, destroyed, isRaw,
     ttyInOpen, ttyOutOpen, stdout, effects, pending, nextSeq, stored, indexing,
     alive, editor, shownSeq, lastArrival, selection, cursorBefore, script >>

\* the state of the operations of the cores and of the start-up code
coreVars == << call, outcome >>

vars == << uiVars, coreVars >>

\* The console's state as one value, so that the methods below can be written
\* as functions from state to state and composed in program order.
State ==
  [value |-> value, reading |-> reading, currentResult |-> currentResult,
   titles |-> titles, selected |-> selected, preview |-> preview,
   destroyed |-> destroyed, isRaw |-> isRaw, ttyInOpen |-> ttyInOpen,
   ttyOutOpen |-> ttyOutOpen, stdout |-> stdout, effects |-> effects,
   pending |-> pending, nextSeq |-> nextSeq, alive |-> alive,
   shownSeq |-> shownSeq, selection |-> selection, thrown |-> FALSE]

Commit(s) ==
  /\ value' = s.value
  /\ reading' = s.reading
  /\ currentResult' = s.currentResult
  /\ titles' = s.titles
  /\ selected' = s.selected
  /\ preview' = s.preview
  /\ destroyed' = s.destroyed
  /\ isRaw' = s.isRaw
  /\ ttyInOpen' = s.ttyInOpen
  /\ ttyOutOpen' = s.ttyOutOpen
  /\ stdout' = s.stdout
  /\ effects' = s.effects
  /\ pending' = s.pending
  /\ nextSeq' = s.nextSeq
  /\ alive' = (s.alive /\ ~s.thrown)
  /\ shownSeq' = s.shownSeq
  /\ selection' = s.selection

LOGO == [content |-> "LOGO", language |-> ""]

Init ==
  /\ value = <<>>
  /\ reading = TRUE
  /\ currentResult = <<>>
  /\ titles = <<>>
  /\ selected = 0
  /\ preview = LOGO
  /\ destroyed = FALSE
  /\ isRaw = TRUE
  /\ ttyInOpen = TRUE
  /\ ttyOutOpen = TRUE
  /\ stdout = <<>>
  /\ effects = <<>>
  /\ pending = {}
  /\ nextSeq = 1
  /\ stored = <<>>
  /\ indexing = "scanning"
  /\ alive = TRUE
  /\ editor \in ConsoleEditors
  /\ shownSeq = 0
  /\ lastArrival = [seq |-> 0, items |-> <<>>]
  /\ selection = <<>>
  /\ cursorBefore = 0
  /\ script = <<>>
  /\ call = [op |-> "none"]
  /\ outcome = NoResult

\* ------------------------------------------------- FluentFinderUI methods
Log(s, what) == [s EXCEPT !.effects = Append(@, what)]

\* convertListItemToListTitle
convertListItemToListTitle(item) == <<item.filePath, "#", item.entity>>

\* updatePreviewWithTitle: sets the preview and renders (blessed's render
\* does nothing on a destroyed screen)
updatePreviewWithTitle(s, content, language) ==
  [s EXCEPT !.preview = [content |-> content, language |-> language]]

\* updatePreview: this.currentResult[idx] is undefined outside 0..length-1,
\* and then the method throws
updatePreview(s) ==
  LET idx == s.selected IN
  IF idx >= 0 /\ idx < Len(s.currentResult)
  THEN updatePreviewWithTitle(s, s.currentResult[idx + 1].content,
                              s.currentResult[idx + 1].language)
  ELSE [s EXCEPT !.thrown = TRUE]

\* blessed List.select(index): the index is clamped to the items of the list
listSelect(s, index) ==
  LET n == Len(s.titles)
      i == IF index < 0 THEN 0 ELSE IF index >= n THEN n - 1 ELSE index
  IN  [s EXCEPT !.selected = i]

\* variant: the cursor is put back where it was, within the new list
updateListKeepsCursor(s, items) ==
  LET s1 == [s EXCEPT !.currentResult = items,
                      !.titles = [i \in 1..Len(items) |->
                                    convertListItemToListTitle(items[i])]]
      s2 == IF Len(items) > 0 THEN listSelect(s1, s.selected) ELSE s1
  IN  IF Len(items) > 0
      THEN updatePreviewWithTitle(s2, items[1].content, items[1].language)
      ELSE updatePreviewWithTitle(s2, "", "")

\* updateList(items)
updateList(s, items) ==
  LET s1 == [s EXCEPT !.currentResult = items]
      \* this.list.clearItems(): the list is emptied, the cursor goes to 0
      s2 == [s1 EXCEPT !.titles = <<>>, !.selected = 0]
      \* this.list.setItems(items.map(...))
      s3 == [s2 EXCEPT !.titles =
                [i \in 1..Len(items) |-> convertListItemToListTitle(items[i])]]
      s4 == IF Len(items) > 0 THEN listSelect(s3, 0) ELSE s3
  IN  IF Len(items) > 0
      THEN updatePreviewWithTitle(s4, items[1].content, items[1].language)
      ELSE updatePreviewWithTitle(s4, "", "")

\* showResult(result, outputType): DEBUG is false, so the only write is
\* console.log, one line on standard output
formatLine(result, outputType) ==
  IF outputType \in {"nvim", "vim"}
  THEN [kind |-> "tabf", line |-> result.row + 1, path |-> result.filePath,
        record |-> NoItem]
  ELSE [kind |-> "json", line |-> 0, path |-> "", record |-> result]

\* variant: the line is written a second time
showResultTwice(s, result, outputType) ==
  Log([s EXCEPT !.stdout = Append(Append(@, formatLine(result, outputType)),
                                  formatLine(result, outputType))], "console.log")

showResult(s, result, outputType) ==
  Log([s EXCEPT !.stdout = Append(@, formatLine(result, outputType))], "console.log")

\* this.screen.destroy()
screenDestroy(s) == Log([s EXCEPT !.destroyed = TRUE], "screen.destroy")

\* ttyIn.setRawMode(false); ttyIn.pause(); ttyIn.destroy(); ttyOut.end()
releaseTerminal(s) ==
  LET s1 == Log([s EXCEPT !.isRaw = FALSE], "setRawMode(false)")
      s2 == Log(s1, "ttyIn.pause")
      s3 == Log([s2 EXCEPT !.ttyInOpen = FALSE], "ttyIn.destroy")
  IN  Log([s3 EXCEPT !.ttyOutOpen = FALSE], "ttyOut.end")

\* variant: the input stream is paused but not destroyed
destroyTTYKeepsInput(s) ==
  LET s1 == Log([s EXCEPT !.isRaw = FALSE], "setRawMode(false)")
      s2 == Log(s1, "ttyIn.pause")
  IN  Log(Log([s2 EXCEPT !.ttyOutOpen = FALSE], "ttyOut.end"), "destroyTTY")

\* destroyTTY()
destroyTTY(s) == Log(releaseTerminal(s), "destroyTTY")

\* the callback of this.screen.key(['escape', 'q', 'C-c'], ...)
quitCallback(s) == destroyTTY(screenDestroy(s))

\* bindKeys: blessed calls a screen-level key handler only while no element
\* has grabbed the keys; a text box that is reading input has
bindKeys(s, key) ==
  IF ~s.reading /\ key.full \in {"escape", "q", "C-c"} THEN quitCallback(s) ELSE s

\* this.core.search({queryText: query, k: 20, ...}) up to the await
dispatchSearch(s, query) ==
  [s EXCEPT !.pending = @ \cup {[seq |-> s.nextSeq, text |-> query, initial |-> FALSE]},
            !.nextSeq = @ + 1]

\* variant: the first element whatever the index
AtIndexFirst(arr, idx) == 0

\* Array.prototype.at: a negative index counts from the end
AtIndex(arr, idx) == IF idx < 0 THEN Len(arr) + idx ELSE idx

\* the enter branch of handleQueryChange, up to the end of the try
enterBranch(s, outputType) ==
  LET listIdx == AtIndex(s.currentResult, s.selected) IN
  IF listIdx >= 0 /\ listIdx < Len(s.currentResult)
  THEN LET selectedItem == s.currentResult[listIdx + 1]
           s1 == screenDestroy(s)
           s2 == showResult(s1, selectedItem, outputType)
           s3 == releaseTerminal(s2)
       IN  [s3 EXCEPT !.selection =
              Append(@, [list |-> s.currentResult, cursor |-> s.selected,
                         preview |-> s.preview, shown |-> s.shownSeq])]
  ELSE s

\* variant: the branch does not return and goes on to the search
moveCursorAndSearch(s, delta) ==
  dispatchSearch(updatePreview(listSelect(s, s.selected + delta)), Trim(s.value))

\* the up and down branches of handleQueryChange: this.list.up(1) or
\* this.list.down(1), this.updatePreview(), return
moveCursor(s, delta) == updatePreview(listSelect(s, s.selected + delta))

\* handleQueryChange(key), from its start to `await this.core.search(...)`
handleQueryChange(s, key, outputType) ==
  LET query == Trim(s.value) IN
  IF key.name # ""
  THEN IF key.name = "backspace"
       THEN dispatchSearch(s, SubSeq(query, 1, Len(query) - 1))
       ELSE IF key.name = "enter"
       THEN dispatchSearch(enterBranch(s, outputType), query)
       ELSE IF key.name = "up"
       THEN moveCursor(s, -1)
       ELSE IF key.name = "down"
       THEN moveCursor(s, 1)
       ELSE IF ~(key.ctrl \/ key.meta \/ key.shift) /\ NameLength(key.name) = 1
       THEN dispatchSearch(s, Append(query, key.name))
       ELSE IF key.ctrl /\ key.name = "c"
       THEN dispatchSearch(destroyTTY(screenDestroy(s)), query)
       ELSE dispatchSearch(s, query)
  ELSE dispatchSearch(s, Append(query, key.full))

\* blessed Textbox listener, attached while the text box reads input (run):
\* enter submits and escape cancels, both end the reading; backspace drops
\* the last character; a character is appended
textboxListener(s, key) ==
  IF ~s.reading THEN s
  ELSE IF key.name \in {"enter", "escape"} THEN [s EXCEPT !.reading = FALSE]
  ELSE IF key.name = "backspace"
  THEN [s EXCEPT !.value = SubSeq(@, 1, Len(@) - 1)]
  ELSE IF key.ch # "" THEN [s EXCEPT !.value = Append(@, key.ch)]
  ELSE s

\* ---------------------------------------------------------------- actions
\* One keypress, delivered by blessed to the screen-level handler and to the
\* listeners of the focused text box.  No key arrives once ttyIn is destroyed.
Deliver(key) ==
  /\ alive
  /\ ttyInOpen
  /\ LET s1 == bindKeys(State, key)
         s2 == handleQueryChange(s1, key, editor)
         s3 == textboxListener(s2, key)
     IN  Commit(s3)
  /\ UNCHANGED <<stored, indexing, editor, lastArrival, cursorBefore, coreVars>>

KeyPress(key) ==
  /\ key.name \in {"up", "down"} \/ nextSeq <= MaxRequests
  /\ (reading /\ key.ch # "") => Len(value) < MaxQueryLen
  /\ Deliver(key)
  /\ UNCHANGED script

\* A search resolves: the rest of handleQueryChange after the await (or of
\* the start-up callback) runs: updateList(res.sort(...).map(...)), render.
SearchResolved(r) ==
  /\ alive
  /\ r \in pending
  /\ LET items == ToListItems(search(stored, r.text, K))
         s1 == updateList(State, items)
     IN  /\ Commit([s1 EXCEPT !.pending = @ \ {r}, !.shownSeq = r.seq])
         /\ lastArrival' = IF r.seq > lastArrival.seq
                           THEN [seq |-> r.seq, items |-> items]
                           ELSE lastArrival
  /\ cursorBefore' = selected
  /\ UNCHANGED <<stored, indexing, editor, script, coreVars>>

\* A search rejects: nothing awaits or catches the promise of
\* handleQueryChange (bindInputEvents) or of the start-up callback, so the
\* rejection is unhandled and ends the process.
SearchRejected(r) ==
  /\ alive
  /\ r \in pending
  /\ Commit([State EXCEPT !.pending = @ \ {r}, !.thrown = TRUE])
  /\ UNCHANGED <<stored, indexing, editor, lastArrival, cursorBefore, script, coreVars>>

\* queryText: " " of the search the start-up code dispatches
InitialQueryText == <<" ">>

\* core.indexDirectory(".") resolves: bulkInsertChunks has been called but
\* not awaited, so the chunks may or may not be in the index yet; the
\* callback dispatches the initial search for " ".
IndexDirectoryResolved ==
  /\ alive
  /\ indexing = "scanning"
  /\ nextSeq <= MaxRequests
  /\ \E inserted \in BOOLEAN :
       /\ indexing' = IF inserted THEN "done" ELSE "inserting"
       /\ stored' = IF inserted THEN Chunks ELSE stored
  /\ Commit([State EXCEPT
       !.pending = @ \cup {[seq |-> nextSeq, text |-> InitialQueryText, initial |-> TRUE]},
       !.nextSeq = @ + 1])
  /\ UNCHANGED <<editor, lastArrival, cursorBefore, script, coreVars>>

\* the insertion started by bulkInsertChunks completes
BulkInsertCompleted ==
  /\ alive
  /\ indexing = "inserting"
  /\ indexing' = "done"
  /\ stored' = Chunks
  /\ UNCHANGED <<value, reading, currentResult, titles, selected, preview, destroyed,
                 isRaw, ttyInOpen, ttyOutOpen, stdout, effects, pending, nextSeq,
                 alive, editor, shownSeq, lastArrival, selection, cursorBefore, script,
                 coreVars>>

Next ==
  \/ \E key \in Keys : KeyPress(key)
  \/ \E r \in pending : SearchResolved(r)
  \/ \E r \in pending : SearchRejected(r)
  \/ IndexDirectoryResolved
  \/ BulkInsertCompleted

Spec == Init /\ [][Next]_vars

TypeOK ==
  /\ selected \in -1..Len(Chunks)
  /\ Len(value) <= MaxQueryLen
  /\ nextSeq \in 1..(MaxRequests + 1)

\* ------------------------------------------------- the end-to-end scenario
\* The index holds the three chunks and the initial list is on display; the
\* driver types f, o, o, waits until no search is pending, then sends down
\* and enter.  The searches resolve in any order.
KeyNamed(full) == CHOOSE key \in Keys : key.full = full

Script == <<"f", "o", "o", "down", "enter">>

InitialItems == ToListItems(search(Chunks, <<" ">>, K))

InitE2E ==
  /\ value = <<>>
  /\ reading = TRUE
  /\ currentResult = InitialItems
  /\ titles = [i \in 1..Len(InitialItems) |-> convertListItemToListTitle(InitialItems[i])]
  /\ selected = 0
  /\ preview = [content |-> InitialItems[1].content, language |-> InitialItems[1].language]
  /\ destroyed = FALSE
  /\ isRaw = TRUE
  /\ ttyInOpen = TRUE
  /\ ttyOutOpen = TRUE
  /\ stdout = <<>>
  /\ effects = <<>>
  /\ pending = {}
  /\ nextSeq = 2
  /\ stored = Chunks
  /\ indexing = "done"
  /\ alive = TRUE
  /\ editor \in Editors
  /\ shownSeq = 1
  /\ lastArrival = [seq |-> 1, items |-> InitialItems]
  /\ selection = <<>>
  /\ cursorBefore = 0
  /\ script = Script
  /\ call = [op |-> "none"]
  /\ outcome = NoResult

ScriptedKeyPress ==
  /\ script # <<>>
  /\ Head(script) \in {"down", "enter"} => pending = {}
  /\ Deliver(KeyNamed(Head(script)))
  /\ script' = Tail(script)

NextE2E ==
  \/ ScriptedKeyPress
  \/ \E r \in pending : SearchResolved(r)

SpecE2E == InitE2E /\ [][NextE2E]_vars

\* ------------------------------------------- the cores and the start-up code
\* The operations of FlfDirCore, FlfBufferCore, FlfCodeSearchUI, the buffer
\* loader and setupTTY.  Each action below is one call of one operation with
\* arguments and library behaviour drawn from small sets; it records the call
\* and what the call did.

MaxBuffers == 2       \* records in a buffer-export file
MaxRow == 2           \* start rows of the items handed to formatResult

\* a text is the sequence of its pieces; a number is put in by ToString
\* JSON.stringify(result) of a ListItem
stringify(result) ==
  << "{filePath:", result.filePath, ",entity:", result.entity,
     ",content:", result.content, ",language:", result.language,
     ",cursorInfo:{start:{row:", ToString(result.row), "}}}" >>

\* variant: the row is embedded as it is, counted from 0
FlfDirCore_formatResultZeroBased(result, outputType) ==
  IF outputType = "nvim" \/ outputType = "vim"
  THEN << "<cmd>", "tabf +", ToString(result.row), " ", result.filePath, "<CR>" >>
  ELSE stringify(result)

\* FlfDirCore.formatResult
FlfDirCore_formatResult(result, outputType) ==
  IF outputType = "nvim" \/ outputType = "vim"
  THEN << "<cmd>", "tabf +", ToString(result.row + 1), " ", result.filePath, "<CR>" >>
  ELSE stringify(result)

\* FlfBufferCore.formatResult
FlfBufferCore_formatResult(result, outputType) ==
  IF outputType = "nvim" \/ outputType = "vim"
  THEN << "<cmd>", "call FlfJumpToBufWithLine(\"", result.filePath, "\",\"",
          ToString(result.row + 1), "\")", "<CR>" >>
  ELSE stringify(result)

\* the items a list can hold
ListItems ==
  { [filePath |-> c.filepath, entity |-> c.entity, content |-> c.content,
     language |-> c.language, row |-> row] :
       c \in {Chunks[i] : i \in 1..Len(Chunks)}, row \in 0..MaxRow }

Returned(v) == Outcome(<<>>, <<>>, <<>>, "", v)

\* core.formatResult(result, outputType) of either core
FormatResult(core, result, outputType) ==
  /\ call' = [op |-> "formatResult", core |-> core, result |-> result,
              outputType |-> outputType]
  /\ outcome' = Returned(IF core = "dir"
                         THEN FlfDirCore_formatResult(result, outputType)
                         ELSE FlfBufferCore_formatResult(result, outputType))
  /\ UNCHANGED uiVars

\* setupTTY(): the streams the console reads keys from and draws on.
\* canOpen: fs.openSync("/dev/tty", ...) succeeds and yields a terminal;
\* canSetRaw: ttyIn.setRawMode(true) succeeds
setupTTY(isBun, osType, canOpen, canSetRaw) ==
  IF isBun /\ osType = "Darwin"
  THEN Outcome(<<"console.log">>,
               <<[stream |-> "log", json |-> FALSE, status |-> "",
                  message |-> <<"Due to a bug in Bun on macOS, ...">>,
                  results |-> <<>>]>>,
               <<>>, "",
               [input |-> "process.stdin", output |-> "process.stdout", isRaw |-> FALSE])
  ELSE IF ~canOpen
  THEN Outcome(<<"fs.openSync">>, <<>>, <<>>, "Error", 0)
  ELSE IF ~canSetRaw
  THEN Outcome(<<"fs.openSync", "fs.openSync", "ttyIn.resume", "ttyIn.setRawMode">>,
               <<>>, <<>>, "Error", 0)
  ELSE Outcome(<<"fs.openSync", "fs.openSync", "ttyIn.resume", "ttyIn.setRawMode">>,
               <<>>, <<>>, "",
               [input |-> "/dev/tty", output |-> "/dev/tty", isRaw |-> TRUE])

\* const { input: ttyIn, output: ttyOut } = setupTTY(), at module level: a
\* throw here ends the process before the console is built
SetupTTY(isBun, osType, canOpen, canSetRaw) ==
  /\ call' = [op |-> "setupTTY", isBun |-> isBun, osType |-> osType,
              canOpen |-> canOpen, canSetRaw |-> canSetRaw]
  /\ outcome' = setupTTY(isBun, osType, canOpen, canSetRaw)
  /\ UNCHANGED uiVars

\* a line written by console.log (stream "log") or console.error ("error");
\* json: the line is a JSON.stringify envelope, status is its status field
Line(stream, json, status, message, results) ==
  [stream |-> stream, json |-> json, status |-> status, message |-> message,
   results |-> results]

\* error instanceof Error, by the kind of the value thrown ("value": a
\* thrown value that is no Error object)
IsError(thrown) == thrown \in {"Error", "TypeError", "SyntaxError"}

\* the BoundaryChunk the parser makes of the i-th entity of a file
BoundaryChunk(filePath, name, content, language, row) ==
  [filePath |-> filePath, name |-> name, content |-> content,
   language |-> language, start |-> row]

\* chunks.map(c => ({content, filepath: c.filePath, entity: c.boundary.name,
\* language, cursorInfo: {start: c.start, ...}, ...}))
toChunkMeta(chunks) ==
  [i \in 1..Len(chunks) |->
     [filepath |-> chunks[i].filePath, entity |-> chunks[i].name,
      content |-> chunks[i].content, language |-> chunks[i].language,
      row |-> chunks[i].start]]

\* readDirectoryAndChunk(factory, options, dirPath): the scan throws, or
\* yields the chunks of the first n entities of the directory
ScanOutcomes ==
  { [thrown |-> t, chunks |-> <<>>] : t \in {"Error", "value"} }
    \cup { [thrown |-> "",
            chunks |-> [i \in 1..n |->
                          BoundaryChunk(Chunks[i].filepath, Chunks[i].entity,
                                        Chunks[i].content, Chunks[i].language,
                                        Chunks[i].row)]] : n \in 0..Len(Chunks) }

\* db.bulkInsertChunks(...), called without await: it starts the insertion
\* ("ok"), throws at the call, or returns a promise that rejects later
InsertOutcomes == {"ok", "throws", "rejects"}

\* variant: dispose is the last statement of the try block
disposeOnReturnOnly(o) ==
  IF o.thrown = "" THEN [o EXCEPT !.trace = Append(@, "factory.dispose")] ELSE o

\* finally { factory.dispose() }
finallyDispose(o) == [o EXCEPT !.trace = Append(@, "factory.dispose")]

\* FlfDirCore.indexDirectory(dirPath)
indexDirectory(dbInit, scan, insert) ==
  IF ~dbInit THEN Outcome(<<>>, <<>>, <<>>, "Error", 0)
  ELSE LET t1 == <<"createParserFactory", "readDirectoryAndChunk">>
           tryBlock ==
             IF scan.thrown # "" THEN Outcome(t1, <<>>, <<>>, scan.thrown, 0)
             ELSE LET t2 == Append(t1, "bulkInsertChunks")
                      bulk == <<toChunkMeta(scan.chunks)>>
                  IN  IF insert = "throws" THEN Outcome(t2, <<>>, bulk, "Error", 0)
                      ELSE Outcome(t2, <<>>, bulk, "", Len(scan.chunks))
       IN  finallyDispose(tryBlock)

IndexDirectory(dbInit, scan, insert) ==
  /\ call' = [op |-> "indexDirectory", dbInit |-> dbInit, scan |-> scan,
              insert |-> insert]
  /\ outcome' = indexDirectory(dbInit, scan, insert)
  /\ UNCHANGED uiVars

\* ---- buffer export files
ExportPath == "bufs.json"

\* the records of an export file: two buffers and a record that is not a
\* BufferInfo (no buffername, no content)
BufferA == [buffername |-> "a.ts", content |-> <<"alpha", "beta">>, wellFormed |-> TRUE]

BufferB == [buffername |-> "b.py", content |-> <<"gamma">>, wellFormed |-> TRUE]

NotABuffer == [buffername |-> "", content |-> <<>>, wellFormed |-> FALSE]

RECURSIVE SeqsUpTo(_, _)
SeqsUpTo(S, n) ==
  IF n = 0 THEN {<<>>}
  ELSE SeqsUpTo(S, n - 1)
         \cup {Append(q, x) : q \in {p \in SeqsUpTo(S, n - 1) : Len(p) = n - 1}, x \in S}

\* readable: fs.readFile succeeds; json: "invalid" (JSON.parse throws),
\* "object" (valid JSON that is no array, such as {}), or "array"
ExportFile(readable, json, records) ==
  [path |-> ExportPath, readable |-> readable, json |-> json, records |-> records]

ExportFiles ==
  { ExportFile(FALSE, "invalid", <<>>), ExportFile(TRUE, "invalid", <<>>),
    ExportFile(TRUE, "object", <<>>) }
    \cup { ExportFile(TRUE, "array", records) :
             records \in SeqsUpTo({BufferA, BufferB, NotABuffer}, MaxBuffers) }

\* loadBufferInfoAsync(filePath): the parsed value is returned under a type
\* assertion, whatever its shape
loadBufferInfoAsync(file) ==
  IF ~file.readable
  THEN Outcome(<<"readFile", "console.error">>,
               <<Line("error", FALSE, "",
                      <<"Error reading or parsing JSON file asynchronously: ", file.path>>,
                      <<>>)>>,
               <<>>, "Error", 0)
  ELSE IF file.json = "invalid"
  THEN Outcome(<<"readFile", "JSON.parse", "console.error">>,
               <<Line("error", FALSE, "",
                      <<"Error reading or parsing JSON file asynchronously: ", file.path>>,
                      <<>>)>>,
               <<>>, "SyntaxError", 0)
  ELSE Outcome(<<"readFile", "JSON.parse">>, <<>>, <<>>, "",
               [iterable |-> file.json = "array", records |-> file.records])

LanguageOf(buffername) == IF buffername = "b.py" THEN "py" ELSE "ts"

\* parseCodeWithFilePath(bi.content, bi.buffername, factory, options) when it
\* does not throw: one chunk for each entity of the content (none for a
\* record without content)
parseCodeWithFilePath(bi) ==
  [i \in 1..Len(bi.content) |->
     BoundaryChunk(bi.buffername, bi.content[i], bi.content[i],
                   LanguageOf(bi.buffername), i - 1)]

\* chunks after the first n passes of the loop
\* for (const bi of bufferInfo) chunks = [...chunks, ...parsed]
RECURSIVE chunksAfter(_, _)
chunksAfter(bufferInfo, n) ==
  IF n = 0 THEN <<>>
  ELSE chunksAfter(bufferInfo, n - 1) \o parseCodeWithFilePath(bufferInfo[n])

\* variant: each buffer's chunks are inserted as soon as it is parsed
tryBlockInsertsEach(bufferInfo, failAt, insert, trace) ==
  IF ~bufferInfo.iterable THEN Outcome(trace, <<>>, <<>>, "TypeError", 0)
  ELSE LET records == bufferInfo.records
           parsed == IF failAt = 0 THEN Len(records) ELSE failAt - 1
           t1 == trace \o [i \in 1..(2 * parsed) |->
                             IF i % 2 = 1 THEN "parseCodeWithFilePath" ELSE "bulkInsertChunks"]
           bulk == [i \in 1..parsed |-> toChunkMeta(parseCodeWithFilePath(records[i]))]
       IN  IF failAt # 0
           THEN Outcome(Append(t1, "parseCodeWithFilePath"), <<>>, bulk, "Error", 0)
           ELSE IF insert = "throws" /\ parsed > 0 THEN Outcome(t1, <<>>, bulk, "Error", 0)
           ELSE Outcome(t1, <<>>, bulk, "", Len(chunksAfter(records, parsed)))

\* the try block of FlfBufferCore.index.  failAt: the position of the buffer
\* whose parse throws, 0 if none does
tryBlock(bufferInfo, failAt, insert, trace) ==
  IF ~bufferInfo.iterable THEN Outcome(trace, <<>>, <<>>, "TypeError", 0)
  ELSE LET records == bufferInfo.records
           attempted == IF failAt = 0 THEN Len(records) ELSE failAt
           t1 == trace \o [i \in 1..attempted |-> "parseCodeWithFilePath"]
           chunks == chunksAfter(records, Len(records))
       IN  IF failAt # 0 THEN Outcome(t1, <<>>, <<>>, "Error", 0)
           ELSE LET t2 == Append(t1, "bulkInsertChunks")
                    bulk == <<toChunkMeta(chunks)>>
                IN  IF insert = "throws" THEN Outcome(t2, <<>>, bulk, "Error", 0)
                    ELSE Outcome(t2, <<>>, bulk, "", Len(chunks))

\* FlfBufferCore.index(bufferInfoPath)
index(dbInit, file, failAt, insert) ==
  IF ~dbInit THEN Outcome(<<>>, <<>>, <<>>, "Error", 0)
  ELSE LET loaded == loadBufferInfoAsync(file) IN
       IF loaded.thrown # "" THEN loaded
       ELSE finallyDispose(tryBlock(loaded.value, failAt, insert,
                                    Append(loaded.trace, "createParserFactory")))

Index(dbInit, file, failAt, insert) ==
  /\ failAt <= Len(file.records)
  /\ call' = [op |-> "index", dbInit |-> dbInit, file |-> file, failAt |-> failAt,
              insert |-> insert]
  /\ outcome' = index(dbInit, file, failAt, insert)
  /\ UNCHANGED uiVars

\* ---- FlfCodeSearchUI, the print UI of dircore.ts
\* executeIndex(dirPath); indexed is what this.core.indexDirectory did
executeIndex(hasCore, isJsonOutput, indexed) ==
  IF ~hasCore THEN Outcome(<<>>, <<>>, <<>>, "Error", 0)
  ELSE LET \* if (!indexedCount) throw new Error("indexedCount is undefined.")
           caught == IF indexed.thrown # "" THEN indexed.thrown
                     ELSE IF indexed.value = 0 THEN "Error" ELSE ""
           reason == IF indexed.thrown # "" THEN "error.message"
                     ELSE "indexedCount is undefined."
           message == IF indexed.value > 0
                      THEN <<"Indexed ", ToString(indexed.value), " code chunks.">>
                      ELSE <<"No code chunks found to index.">>
           console ==
             IF caught = ""
             THEN IF isJsonOutput
                  THEN <<Line("log", TRUE, "success", message, <<>>)>>
                  ELSE <<Line("log", FALSE, "", message, <<>>)>>
             ELSE IF isJsonOutput
             THEN IF IsError(caught)
                  THEN <<Line("error", TRUE, "error",
                              <<"Error during directory indexing: ", reason>>, <<>>)>>
                  ELSE <<>>
             ELSE <<Line("error", FALSE, "",
                         <<"Error during directory indexing:", reason>>, <<>>)>>
       IN  Outcome(indexed.trace, console, indexed.bulk, "", 0)

ExecuteIndex(hasCore, isJsonOutput, dbInit, scan, insert) ==
  /\ call' = [op |-> "executeIndex", hasCore |-> hasCore,
              isJsonOutput |-> isJsonOutput, dbInit |-> dbInit, scan |-> scan,
              insert |-> insert]
  /\ outcome' = executeIndex(hasCore, isJsonOutput, indexDirectory(dbInit, scan, insert))
  /\ UNCHANGED uiVars

\* the lines executeQuery prints for one result in plain mode
plainLines(res) ==
  << Line("log", FALSE, "", <<"- File: ", res.file>>, <<>>),
     Line("log", FALSE, "", <<"  Content Snippet: ">> \o res.contentSnippet, <<>>),
     Line("log", FALSE, "", <<"  Score: ">>, <<>>),
     Line("log", FALSE, "", <<"  Entity: ", res.entity>>, <<>>),
     Line("log", FALSE, "", <<"  Parent: ">>, <<>>) >>

RECURSIVE forEachPlainLines(_)
forEachPlainLines(output) ==
  IF output = <<>> THEN <<>>
  ELSE plainLines(Head(output)) \o forEachPlainLines(Tail(output))

\* executeQuery({queryText, k, isJsonOutput}).  rejected: the kind of the
\* value db.searchSimilar rejects with, "" if it resolves
executeQuery(hasCore, isJsonOutput, dbInit, rejected, held, queryText, k) ==
  IF ~hasCore THEN Outcome(<<>>, <<>>, <<>>, "Error", 0)
  ELSE IF ~dbInit THEN Outcome(<<"core.search">>, <<>>, <<>>, "Error", 0)
  ELSE IF rejected # ""
  THEN Outcome(<<"core.search", "db.searchSimilar">>, <<>>, <<>>, rejected, 0)
  ELSE LET output == FlfDirCore_search(held, queryText, k, isJsonOutput)
           console ==
             IF Len(output) > 0
             THEN IF isJsonOutput
                  THEN <<Line("log", TRUE, "success", queryText, output)>>
                  ELSE <<Line("log", FALSE, "",
                              <<"Top ", ToString(k), " results for query ">> \o queryText,
                              <<>>)>>
                         \o forEachPlainLines(output)
             ELSE IF isJsonOutput
                  THEN <<Line("log", TRUE, "success", queryText, <<>>)>>
                  ELSE <<Line("log", FALSE, "",
                              <<"No results found for query ">> \o queryText, <<>>)>>
       IN  Outcome(<<"core.search", "db.searchSimilar">>, console, <<>>, "", 0)

ExecuteQuery(hasCore, isJsonOutput, dbInit, rejected, held, queryText) ==
  /\ call' = [op |-> "executeQuery", hasCore |-> hasCore,
              isJsonOutput |-> isJsonOutput, dbInit |-> dbInit,
              rejected |-> rejected, held |-> held, queryText |-> queryText]
  /\ outcome' = executeQuery(hasCore, isJsonOutput, dbInit, rejected, held, queryText, K)
  /\ UNCHANGED uiVars

\* core.search({queryText, k, isJsonOutput}) of either core, on an index
\* that holds the chunks held
Search(core, dbInit, held, queryText, isJsonOutput) ==
  /\ call' = [op |-> "search", core |-> core, dbInit |-> dbInit, held |-> held,
              queryText |-> queryText, isJsonOutput |-> isJsonOutput]
  /\ outcome' =
       IF ~dbInit THEN Outcome(<<>>, <<>>, <<>>, "Error", 0)
       ELSE Outcome(<<"db.searchSimilar">>, <<>>, <<>>, "",
                    IF core = "dir"
                    THEN FlfDirCore_search(held, queryText, K, isJsonOutput)
                    ELSE FlfBufferCore_search(held, queryText, K, isJsonOutput))
  /\ UNCHANGED uiVars

NextCore ==
  \/ \E core \in {"dir", "buf"}, item \in ListItems, outputType \in Editors :
       FormatResult(core, item, outputType)
  \/ \E isBun \in BOOLEAN, osType \in {"Darwin", "Linux"},
        canOpen \in BOOLEAN, canSetRaw \in BOOLEAN :
       SetupTTY(isBun, osType, canOpen, canSetRaw)
  \/ \E dbInit \in BOOLEAN, scan \in ScanOutcomes, insert \in InsertOutcomes :
       IndexDirectory(dbInit, scan, insert)
  \/ \E dbInit \in BOOLEAN, file \in ExportFiles, failAt \in 0..MaxBuffers,
        insert \in InsertOutcomes :
       Index(dbInit, file, failAt, insert)
  \/ \E hasCore \in BOOLEAN, isJsonOutput \in BOOLEAN, dbInit \in BOOLEAN,
        scan \in ScanOutcomes, insert \in InsertOutcomes :
       ExecuteIndex(hasCore, isJsonOutput, dbInit, scan, insert)
  \/ \E hasCore \in BOOLEAN, isJsonOutput \in BOOLEAN, dbInit \in BOOLEAN,
        rejected \in {"", "Error", "value"}, held \in {<<>>, TextChunks},
        queryText \in {<<>>, <<"f">>} :
       ExecuteQuery(hasCore, isJsonOutput, dbInit, rejected, held, queryText)
  \/ \E core \in {"dir", "buf"}, dbInit \in BOOLEAN, held \in {<<>>, TextChunks},
        queryText \in {<<>>, <<"f">>}, isJsonOutput \in BOOLEAN :
       Search(core, dbInit, held, queryText, isJsonOutput)

SpecCore == Init /\ [][NextCore]_vars

\* ------------------------------------ the earlier console: the fuzzy filter
\* The first versions of the console (src/unnamed/part_001 lines 1-515)
\* filter a fixed list of strings with fuzzyMatch on every query change.  A
\* string is the sequence of its characters.

MaxItemLen == 3       \* characters of an item of allItems
MaxItems == 2         \* items of allItems

\* the characters a key can append to the query
Chars == {"a", "A", "b"}

\* the characters of the items
ItemChars == {"A", "b"}

\* String.prototype.toLowerCase
toLowerCase(s) == [i \in 1..Len(s) |-> IF s[i] = "A" THEN "a" ELSE s[i]]

\* the for loop of fuzzyMatch, from itemIndex on (indices count from 0)
RECURSIVE fuzzyLoop(_, _, _, _)
fuzzyLoop(lowerQuery, lowerItem, itemIndex, queryIndex) ==
  IF itemIndex >= Len(lowerItem) THEN FALSE
  ELSE LET next == IF lowerItem[itemIndex + 1] = lowerQuery[queryIndex + 1]
                   THEN queryIndex + 1 ELSE queryIndex
       IN  IF next = Len(lowerQuery) THEN TRUE
           ELSE fuzzyLoop(lowerQuery, lowerItem, itemIndex + 1, next)

\* variant: the strings are compared as they are, without toLowerCase
fuzzyMatchCaseSensitive(query, item) ==
  IF query = <<>> THEN TRUE ELSE fuzzyLoop(query, item, 0, 0)

\* fuzzyMatch(query, item)
fuzzyMatch(query, item) ==
  IF query = <<>> THEN TRUE
  ELSE fuzzyLoop(toLowerCase(query), toLowerCase(item), 0, 0)

\* the end of handleQueryChange: the list handed to updateList
filterItems(query, allItems) ==
  IF query = <<>> THEN allItems
  ELSE SelectSeq(allItems, LAMBDA item : fuzzyMatch(query, item))

\* the lists the console can be constructed with
ItemLists == SeqsUpTo(SeqsUpTo(ItemChars, MaxItemLen), MaxItems)

\* after the constructor: this.updateList(this.allItems), the query is empty
InitFuzzy ==
  /\ value = <<>>
  /\ reading = TRUE
  /\ currentResult = <<>>
  /\ titles = <<>>
  /\ selected = 0
  /\ preview = LOGO
  /\ destroyed = FALSE
  /\ isRaw = TRUE
  /\ ttyInOpen = TRUE
  /\ ttyOutOpen = TRUE
  /\ stdout = <<>>
  /\ effects = <<>>
  /\ pending = {}
  /\ nextSeq = 1
  /\ stored = <<>>
  /\ indexing = "done"
  /\ alive = TRUE
  /\ editor = "cmd"
  /\ shownSeq = 0
  /\ lastArrival = [seq |-> 0, items |-> <<>>]
  /\ selection = <<>>
  /\ cursorBefore = 0
  /\ script = <<>>
  /\ \E allItems \in ItemLists :
       /\ call = [op |-> "filter", allItems |-> allItems, query |-> <<>>]
       /\ outcome = Returned(allItems)

\* handleQueryChange of the earlier console for a key that appends ch to the
\* query: the list is filtered anew from allItems
QueryExtended(ch) ==
  /\ call.op = "filter"
  /\ Len(call.query) < MaxQueryLen
  /\ call' = [call EXCEPT !.query = Append(@, ch)]
  /\ outcome' = Returned(filterItems(Append(call.query, ch), call.allItems))
  /\ UNCHANGED uiVars

\* the same for backspace: query = [...query].slice(0, -1).join('')
QueryShortened ==
  /\ call.op = "filter"
  /\ call' = [call EXCEPT !.query = SubSeq(@, 1, Len(@) - 1)]
  /\ outcome' = Returned(filterItems(SubSeq(call.query, 1, Len(call.query) - 1),
                                     call.allItems))
  /\ UNCHANGED uiVars

NextFuzzy ==
  \/ \E ch \in Chars : QueryExtended(ch)
  \/ QueryShortened

SpecFuzzy == InitFuzzy /\ [][NextFuzzy]_vars

\* ----------------------------------------------------------------- claims
Terminating == destroyed

Released == ~isRaw /\ ~ttyInOpen /\ ~ttyOutOpen

Positions(what) == {i \in 1..Len(effects) : effects[i] = what}

\* C1: whenever the console shows a list, the list is the answer of the
\* search with the greatest dispatch number among the answers that have
\* arrived so far, never the answer of an older search.
C1_ShowsLatestDispatched ==
  (~destroyed /\ lastArrival.seq > 0) => currentResult = lastArrival.items

\* C2: once the answer to search N is on display, the answer to a search
\* dispatched before N that arrives afterwards is dropped: the list, the
\* cursor and the preview stay as they are.
C2_StaleAnswerDropped ==
  [][\A r \in pending :
       (SearchResolved(r) /\ r.seq < shownSeq)
         => UNCHANGED <<currentResult, selected, preview>>]_vars

\* C3: typing f, o, o, then down, then enter emits the command for the item
\* ranked 2 for "foo", in whatever order the three searches resolve.
C3_EndToEndSecondOfFoo ==
  (script = <<>> /\ value = <<"f", "o", "o">>)
    => stdout = <<formatLine(ToListItems(search(Chunks, <<"f", "o", "o">>, K))[2], editor)>>

\* C4: the selection is written to standard output only after the screen
\* has been destroyed, raw mode switched off and both terminal streams
\* closed.
C4_OutputAfterRelease ==
  \A i \in Positions("console.log") :
    \A what \in {"screen.destroy", "setRawMode(false)", "ttyIn.destroy", "ttyOut.end"} :
      \E j \in Positions(what) : j < i

\* C5: whenever the console has stopped handling input (submission,
\* cancellation, or an error that ended the process) the terminal is
\* released, and the release has run exactly once.
C5_ReleasedOnEveryExit ==
  (destroyed \/ ~alive \/ ~ttyInOpen)
    => (Released /\ Cardinality(Positions("ttyIn.destroy")) = 1)

Quit == Positions("destroyTTY") # {}

C7_OneLinePerSelection == Len(selection) <= 1 /\ Len(stdout) = Len(selection)

\* C7 witness: a selection was captured and a search resolved after it.
C7_Witness ==
  Len(selection) = 1 /\ Len(stdout) = 1 /\ shownSeq > selection[1].shown

\* C8: the line written on enter is the line of the item at the cursor of
\* the list on display when enter was pressed, the item the preview showed.
C8_EmitsItemAtCursor ==
  \A i \in 1..Len(selection) :
    LET sel == selection[i] IN
    /\ sel.cursor \in 0..(Len(sel.list) - 1)
    /\ i <= Len(stdout)
    /\ stdout[i] = formatLine(sel.list[sel.cursor + 1], editor)
    /\ sel.preview = [content |-> sel.list[sel.cursor + 1].content,
                      language |-> sel.list[sel.cursor + 1].language]

\* C8 witness: enter was pressed with the cursor moved off the first item.
C8_Witness == selection # <<>> /\ selection[1].cursor > 0 /\ stdout # <<>>

\* C9: pressing enter in Editing always moves the console to Terminating,
\* also when the list is empty: screen destroyed and terminal released.
C9_EnterTerminates ==
  [][(~Terminating /\ KeyPress(KeyNamed("enter"))) => (Terminating' /\ Released')]_vars

\* C10: once the console is Terminating no later event changes anything: no
\* search is dispatched, and a search that resolves late does not replace
\* the list, move the cursor or write output.
C10_TerminatingIsFinal ==
  [][Terminating => UNCHANGED <<currentResult, selected, stdout, nextSeq>>]_vars

Clamp(i, n) == IF i < 0 THEN 0 ELSE IF i >= n THEN n - 1 ELSE i

UpKey == KeyNamed("up")

DownKey == KeyNamed("down")

\* C11: up and down dispatch no search and are a pure navigation step: the
\* cursor moves by one within the list (staying at either end) and the
\* preview shows the item under it, while the query text, the list and the
\* pending searches stay as they are.
C11_NavigationOnly ==
  [][\A delta \in {-1, 1} :
       KeyPress(IF delta = 1 THEN DownKey ELSE UpKey)
         => /\ UNCHANGED <<value, currentResult, titles, pending, nextSeq>>
            /\ Len(currentResult) > 0 =>
                 /\ selected' = Clamp(selected + delta, Len(currentResult))
                 /\ preview' = [content |-> currentResult[selected' + 1].content,
                                language |-> currentResult[selected' + 1].language]]_vars

\* C11 witness: the cursor has been moved down while a search is pending.
C11_Witness == selected > 0 /\ pending # {} /\ alive /\ ~destroyed

\* C12: only printable-character and backspace keystrokes dispatch a search,
\* exactly one each; enter, escape, Ctrl-C and the navigation keys dispatch
\* none.
C12_OnlyTypingDispatches ==
  [][\A key \in Keys :
       KeyPress(key)
         => nextSeq' = nextSeq +
              (IF key \in PrintableKeys \/ key.name = "backspace" THEN 1 ELSE 0)]_vars

\* C13: the cursor stays within the list whenever the list is not empty, and
\* up and down on an empty list cause no error.
C13_CursorClamped ==
  [][/\ Len(currentResult') > 0 => selected' \in 0..(Len(currentResult') - 1)
     /\ (KeyPress(UpKey) \/ KeyPress(DownKey)) => alive']_vars

C15_FailedSearchRecoverable ==
  [][\A r \in pending :
       SearchRejected(r)
         => /\ UNCHANGED <<currentResult, selected, destroyed>>
            /\ alive'
            /\ ttyInOpen' = ttyInOpen]_vars

\* C16: no handler lets an error escape: no step ends in an uncaught
\* exception or an unhandled promise rejection.
C16_NoErrorEscapes == alive

EscapeKey == KeyNamed("escape")

CtrlCKey == KeyNamed("C-c")

\* C17: escape and Ctrl-C are accepted in every Editing state, however many
\* searches are pending, and move the console to Terminating in that step.
C17_QuitImmediately ==
  [][\A key \in {EscapeKey, CtrlCKey} :
       /\ (alive /\ ~Terminating) => ENABLED Deliver(key)
       /\ (~Terminating /\ KeyPress(key)) => (Terminating' /\ Released')]_vars

Request(seq, text) == [seq |-> seq, text |-> text, initial |-> FALSE]

\* C18: the search dispatched for a printable keystroke (letter of either
\* case, digit, space, ...) carries the previous query text with that
\* character appended, the text the user sees typed (texts compared up to
\* white space at either end).
C18_DispatchesTypedText ==
  [][\A key \in PrintableKeys :
       KeyPress(key)
         => /\ pending' = pending \cup {Request(nextSeq, Trim(Append(value, key.ch)))}
            /\ reading => value' = Append(value, key.ch)]_vars

BackspaceKey == KeyNamed("backspace")

\* C19: backspace removes exactly the last character of the query and
\* dispatches a search with the shortened text (compared up to white space
\* at either end); on an empty query the query stays empty and a search is
\* still dispatched.
C19_BackspaceDropsLast ==
  [][KeyPress(BackspaceKey)
       => LET shortened == SubSeq(value, 1, Len(value) - 1) IN
          /\ pending' = pending \cup {Request(nextSeq, Trim(shortened))}
          /\ reading => value' = shortened]_vars

\* C20: the console does not re-order results: after every rendered answer
\* the list has the length and the item order of the backend's answer, and
\* the i-th row of the answer has rank i.
C20_KeepsBackendOrder ==
  [][\A r \in pending :
       SearchResolved(r)
         => LET hits == searchSimilar(stored, r.text, K)
                res == search(stored, r.text, K)
            IN  /\ Len(currentResult') = Len(hits)
                /\ Len(res) = Len(hits)
                /\ \A i \in 1..Len(hits) :
                     /\ res[i].rank = i
                     /\ currentResult'[i].filePath = hits[i].filepath
                     /\ currentResult'[i].entity = hits[i].entity
                     /\ currentResult'[i].content = hits[i].content]_vars

\* C20 witness: an answer is on display whose order differs from the order
\* in which the chunks were stored.
C20_Witness ==
  /\ shownSeq > 0
  /\ Len(currentResult) = Len(Chunks)
  /\ currentResult[1].filePath # Chunks[1].filepath

Pieces(text) == {text[i] : i \in 1..Len(text)}

\* C21: formatResult of either core returns, for nvim and for vim, one and
\* the same jump command, from <cmd> to <CR>, that embeds the 1-based line
\* row + 1 and the file path of the selection, and for cmd and emacs the
\* JSON text of the selection and no command; the line of the console
\* (showResult) carries the same line number, path and record.
C21_FormatResult ==
  call.op = "formatResult" =>
    LET item == call.result
        text == outcome.value
        other(e) == IF call.core = "dir" THEN FlfDirCore_formatResult(item, e)
                    ELSE FlfBufferCore_formatResult(item, e)
        line == formatLine(item, call.outputType)
    IN  /\ outcome.thrown = ""
        /\ IF call.outputType \in {"nvim", "vim"}
           THEN /\ text = other("nvim") /\ text = other("vim")
                /\ Head(text) = "<cmd>" /\ text[Len(text)] = "<CR>"
                /\ ToString(item.row + 1) \in Pieces(text)
                /\ item.filePath \in Pieces(text)
                /\ text # stringify(item)
                /\ line.kind = "tabf" /\ line.line = item.row + 1
                /\ line.path = item.filePath
           ELSE /\ text = stringify(item)
                /\ "<cmd>" \notin Pieces(text)
                /\ line.kind = "json" /\ line.record = item

\* C21 witness: the buffer core formatted, for vim, an item that does not
\* start on the first line of its file.
C21_Witness ==
  /\ call.op = "formatResult" /\ call.core = "buf" /\ call.outputType = "vim"
  /\ call.result.row > 0
  /\ Len(outcome.value) > 1

\* C22: for every selection and every editor value the buffer core formats
\* the selection as the directory core does.
C22_SameFormatInBufMode ==
  call.op = "formatResult" =>
    /\ FlfBufferCore_formatResult(call.result, call.outputType)
         = FlfDirCore_formatResult(call.result, call.outputType)
    /\ outcome.value = FlfDirCore_formatResult(call.result, call.outputType)

\* C23: no search reaches the backend before the indexing has finished
\* inserting all chunks: while a search is in flight the index is complete.
C23_IndexedBeforeSearch == pending # {} => indexing = "done"

\* C24: whenever the terminal device cannot be opened or cannot be put into
\* raw mode, setupTTY does not throw and returns the standard input and
\* output streams of the process.
C24_FallsBackToStdio ==
  (call.op = "setupTTY" /\ (~call.canOpen \/ ~call.canSetRaw))
    => /\ outcome.thrown = ""
       /\ outcome.value.input = "process.stdin"
       /\ outcome.value.output = "process.stdout"

\* the operation of the print UI that was called has failed: on a UI and a
\* core set up by their init, the core's operation threw or rejected
Failed ==
  \/ /\ call.op = "executeIndex"
     /\ call.hasCore /\ call.dbInit
     /\ indexDirectory(call.dbInit, call.scan, call.insert).thrown # ""
  \/ /\ call.op = "executeQuery"
     /\ call.hasCore /\ call.dbInit
     /\ call.rejected # ""

\* C25: every failure of executeIndex or executeQuery is reported and does
\* not leave the operation: in JSON-output mode by a JSON envelope with
\* status "error", whatever value was thrown, in plain mode by a plain line
\* on the error stream.
C25_FailuresReported ==
  Failed =>
    /\ outcome.thrown = ""
    /\ \E i \in 1..Len(outcome.console) :
         LET line == outcome.console[i] IN
         IF call.isJsonOutput THEN line.json /\ line.status = "error"
         ELSE ~line.json /\ line.stream = "error"

\* the export file is unreadable, is not valid JSON, or is valid JSON that is
\* not an array of {buffername, content} records
Malformed(file) ==
  \/ ~file.readable
  \/ file.json # "array"
  \/ \E i \in 1..Len(file.records) : ~file.records[i].wellFormed

\* the console line names the file path
Names(line, path) == path \in Pieces(line.message)

\* C26: for every malformed export file buffer indexing fails with an error,
\* writes a diagnostic that names the file path, and hands no chunk to the
\* index.
C26_MalformedExportIsFatal ==
  (call.op = "index" /\ call.dbInit /\ Malformed(call.file))
    => /\ outcome.thrown # ""
       /\ \E i \in 1..Len(outcome.console) :
            outcome.console[i].stream = "error" /\ Names(outcome.console[i], call.file.path)
       /\ outcome.bulk = <<>>

\* the preview shows the item at the cursor (nothing when the list is empty)
\* and the titles are those of the held items, one for one
PreviewAndTitlesAligned ==
  /\ Len(titles) = Len(currentResult)
  /\ \A i \in 1..Len(currentResult) :
       titles[i] = <<currentResult[i].filePath, "#", currentResult[i].entity>>
  /\ IF currentResult = <<>>
     THEN preview.content = ""
     ELSE /\ selected \in 0..(Len(currentResult) - 1)
          /\ preview = [content |-> currentResult[selected + 1].content,
                        language |-> currentResult[selected + 1].language]

\* C27: after every list replacement and after every cursor move the preview
\* shows the content and language of the item at the cursor (empty content
\* when the list is empty) and the i-th title is filePath#entity of the i-th
\* held item.
C27_PreviewFollowsCursor ==
  [][((\E r \in pending : SearchResolved(r)) \/ KeyPress(UpKey) \/ KeyPress(DownKey))
       => PreviewAndTitlesAligned']_vars

\* C28: the search dispatched when backspace leaves the query empty carries
\* the query text of the search dispatched at start-up, and so does the
\* start-up search itself.
C28_EmptyQueryLikeStartup ==
  [][/\ (KeyPress(BackspaceKey) /\ Len(Trim(value)) <= 1)
          => \A r \in pending' \ pending : r.text = InitialQueryText
     /\ IndexDirectoryResolved
          => \A r \in pending' \ pending : r.text = InitialQueryText]_vars

\* how often the call made the library call `what`
Count(what) == Cardinality({i \in 1..Len(outcome.trace) : outcome.trace[i] = what})

\* C29: a call of indexDirectory or index that creates a parser factory
\* disposes of it exactly once, as the last thing it does, whether it returns
\* or throws; a call on a core without database throws and creates none.
C29_FactoryDisposed ==
  call.op \in {"indexDirectory", "index"} =>
    /\ Count("createParserFactory") <= 1
    /\ Count("factory.dispose") = Count("createParserFactory")
    /\ Count("createParserFactory") = 1
         => outcome.trace[Len(outcome.trace)] = "factory.dispose"
    /\ ~call.dbInit => (outcome.thrown # "" /\ Count("createParserFactory") = 0)

\* C29 witness: buffer indexing threw after its factory had been created (a
\* parse or the insertion failed), and the factory has been disposed of.
C29_Witness ==
  /\ call.op = "index"
  /\ outcome.thrown # ""
  /\ Count("createParserFactory") = 1
  /\ Count("parseCodeWithFilePath") > 0
  /\ Count("factory.dispose") = 1

\* the number of chunks in the buffers before the p-th
RECURSIVE Offset(_, _)
Offset(records, p) ==
  IF p <= 1 THEN 0 ELSE Offset(records, p - 1) + Len(records[p - 1].content)

\* C30: buffer indexing makes at most one bulk insert; if the parse of any
\* buffer fails it throws and hands no chunk of any buffer to the index; if
\* it returns, the one bulk insert got the chunks of all buffers in buffer
\* order and the value returned is their number.
C30_AllOrNothing ==
  (call.op = "index" /\ call.dbInit) =>
    LET records == call.file.records IN
    /\ Len(outcome.bulk) <= 1
    /\ call.failAt # 0 => (outcome.thrown # "" /\ outcome.bulk = <<>>)
    /\ outcome.thrown = "" =>
         /\ Len(outcome.bulk) = 1
         /\ outcome.value = Len(outcome.bulk[1])
         /\ Len(outcome.bulk[1]) = Offset(records, Len(records) + 1)
         /\ \A p \in 1..Len(records) : \A i \in 1..Len(records[p].content) :
              LET chunk == outcome.bulk[1][Offset(records, p) + i] IN
              /\ chunk.filepath = records[p].buffername
              /\ chunk.entity = records[p].content[i]

\* C30 witness: the parse of the second buffer failed after the first buffer
\* had yielded chunks, and nothing was handed to the index.
C30_Witness ==
  /\ call.op = "index" /\ call.dbInit
  /\ call.failAt = 2
  /\ Len(call.file.records[1].content) > 0
  /\ Count("parseCodeWithFilePath") = 2
  /\ outcome.thrown # "" /\ outcome.bulk = <<>>

\* C31: whenever indexDirectory returns normally executeIndex reports a
\* success and no error: one line on the log stream (status "success" in
\* JSON-output mode), which for zero chunks carries the message "No code
\* chunks found to index."
C31_SuccessWhenIndexed ==
  (call.op = "executeIndex" /\ call.hasCore
     /\ indexDirectory(call.dbInit, call.scan, call.insert).thrown = "")
    => LET indexed == indexDirectory(call.dbInit, call.scan, call.insert) IN
       /\ outcome.thrown = ""
       /\ Len(outcome.console) = 1
       /\ outcome.console[1].stream = "log"
       /\ call.isJsonOutput => outcome.console[1].status = "success"
       /\ indexed.value = 0
            => outcome.console[1].message = <<"No code chunks found to index.">>

\* the elements of s at the positions in S, in the order of s
RECURSIVE Pick(_, _)
Pick(s, S) ==
  IF s = <<>> THEN <<>>
  ELSE LET rest == Pick(SubSeq(s, 1, Len(s) - 1), S \ {Len(s)}) IN
       IF Len(s) \in S THEN Append(rest, s[Len(s)]) ELSE rest

\* q can be obtained from s by deleting elements
IsSubsequence(q, s) == \E S \in SUBSET (1..Len(s)) : Pick(s, S) = q

\* C32: fuzzyMatch(query, item) is true exactly when the lower-cased query is
\* a subsequence of the lower-cased item; the empty query matches every
\* item; the list shown is the sublist of allItems, in order, of the items
\* that match; and the list for the query extended by any one character is
\* a sublist of the list shown.
C32_FuzzyIsSubsequence ==
  call.op = "filter" =>
    LET query == call.query
        allItems == call.allItems
        shown == outcome.value
        matches(item) == IsSubsequence(toLowerCase(query), toLowerCase(item))
    IN  /\ \A i \in 1..Len(allItems) : fuzzyMatch(query, allItems[i]) <=> matches(allItems[i])
        /\ \A i \in 1..Len(allItems) : fuzzyMatch(<<>>, allItems[i])
        /\ shown = SelectSeq(allItems, matches)
        /\ \A ch \in Chars :
             IsSubsequence(filterItems(Append(query, ch), allItems), shown)

\* C32 witness: of two items the list shows only the second, which holds the
\* two characters of the query apart from each other and in the other case.
C32_Witness ==
  /\ call.op = "filter"
  /\ call.query = <<"a", "a">>
  /\ call.allItems = << <<"A", "b">>, <<"A", "b", "A">> >>
  /\ outcome.value = << <<"A", "b", "A">> >>

\* C33: search returns one row for every match; its contentSnippet is the
\* full content when isJsonOutput is true and otherwise the first 100
\* characters of the content followed by "...", also for a content shorter
\* than 100 characters; with isJsonOutput true, as the console searches, the
\* list item made of the row and its cmd output carry the full content.
C33_SnippetCutUnlessJson ==
  (call.op = "search" /\ call.dbInit) =>
    LET hits == searchSimilar(call.held, call.queryText, K)
        rows == outcome.value
    IN  /\ outcome.thrown = ""
        /\ Len(rows) = Len(hits)
        /\ \A i \in 1..Len(hits) :
             LET content == hits[i].content
                 snippet == rows[i].contentSnippet
                 kept == IF Len(content) < SnippetLength THEN Len(content)
                         ELSE SnippetLength
             IN  IF call.isJsonOutput
                 THEN /\ snippet = content
                      /\ ToListItems(rows)[i].content = content
                      /\ formatLine(ToListItems(rows)[i], "cmd").record.content = content
                 ELSE /\ Len(snippet) = kept + 3
                      /\ \A j \in 1..kept : snippet[j] = content[j]
                      /\ \A j \in (kept + 1)..(kept + 3) : snippet[j] = "."

\* C33 witness: a plain-mode search returned a snippet that was cut at 100
\* characters and a snippet of a shorter content with the ellipsis added.
C33_Witness ==
  /\ call.op = "search" /\ call.dbInit /\ ~call.isJsonOutput
  /\ outcome.thrown = ""
  /\ \E i \in 1..Len(outcome.value) :
       /\ Len(searchSimilar(call.held, call.queryText, K)[i].content) > SnippetLength
       /\ Len(outcome.value[i].contentSnippet) = SnippetLength + 3
  /\ \E i \in 1..Len(outcome.value) :
       /\ Len(searchSimilar(call.held, call.queryText, K)[i].content) = SnippetLength - 1
       /\ Len(outcome.value[i].contentSnippet) = SnippetLength + 2

=============================================================================
